---- MODULE Spec2Model ----
(***************************************************************************)
(* The community master server of src/server/master_server.py: the session *)
(* registry (SessionManager), its HTTP handlers, the periodic sweep of     *)
(* stale sessions and the fan-out of mutation events to the WebSocket      *)
(* subscribers.                                                            *)
(*                                                                         *)
(* A JSON object is a record whose DOMAIN is the set of keys it carries; a *)
(* key the request omits is simply not in the DOMAIN.  Every HTTP handler  *)
(* runs without suspension once its body is read, so it is one action.     *)
(* A broadcast task suspends inside ws.send_str, so it is one action per   *)
(* turn of its loop.                                                       *)
(***************************************************************************)
EXTENDS Integers, Sequences, FiniteSets, TLC

VARIABLES
    sessions,    \* SessionManager.sessions: session id -> GameSession
    order,       \* insertion order of the keys of SessionManager.sessions
    websockets,  \* SessionManager.websockets
    wsState,     \* per socket: the position of its websocket_handler
    tasks,       \* broadcast_update tasks created and not yet ended, oldest first
    got,         \* per socket: the last envelope written to it
    missed,      \* per socket: events committed while it was subscribed whose
                 \* broadcast ended without writing to it
    now,         \* datetime.utcnow(), in seconds
    sweeper,     \* the task of cleanup_task: running, or ended by an exception
    joining,     \* per client: its join request, while join_session awaits the
                 \* body and after it has answered
    resp         \* the last operation and its outcome (HTTP status)

vars ==
    <<sessions, order, websockets, wsState, tasks, got, missed, now, sweeper,
      joining, resp>>

----------------------------------------------------------------------------
(* Bounds of the model *)

MaxTime == 125
MaxPlayers == 2
MaxTasks == 1

(* Program constants *)

\* The ceiling of the pilots off by one.
MaxPilotsCeiling_5 == 6 - 1
SessionTimeout == 120
MaxPilotsCeiling == 6
MaxSpectatorsCeiling == 15
DefaultLaps == 3
DefaultHostPort == 5056

(* Inputs *)

SessionIds == {"0a1b2c3d", "4e5f6a7b"}
SteamIds == {"S1", "76561198000000002"}
WsIds == {"w1", "w2"}
Clients == {"c1", "c2"}
TickSteps == {120, 121}

\* A body that is not valid JSON.
InvalidJson == [invalid_json |-> TRUE]

\* A body that is valid JSON and neither an object, an array nor a string:
\* null, a number, true or false.
JsonScalar == [json_scalar |-> TRUE]

\* None, for a peer address or a header that is absent.
None == ""

Get(d, k, default) == IF k \in DOMAIN d THEN d[k] ELSE default

\* A min that never clamps.
Min_first(a, b) == a

Min(a, b) == IF a < b THEN a ELSE b

\* Python truthiness of a JSON string.
Truthy(s) == s # ""

----------------------------------------------------------------------------
(* Conversions *)

\* datetime.isoformat() and datetime.fromisoformat(): a timestamp is kept as text.
isoformat(t) == [iso |-> t]
fromisoformat(s) == s.iso

\* hashlib.sha256(p.encode()).hexdigest(): distinct digests for distinct passwords.
sha256(p) == "sha256:" \o p

\* steam_id[-6:], the last six characters.
Last6(steam_id) ==
    CASE steam_id = "76561198000000002" -> "000002"
      [] OTHER -> steam_id

----------------------------------------------------------------------------
(* The entities *)

\* Player(...): the dataclass; joined_at and avatar_url are left out.
Player(steam_id, name, is_host, is_spectator) ==
    [steam_id |-> steam_id, name |-> name,
     is_host |-> is_host, is_spectator |-> is_spectator]

\* A rendering that keeps the digest.
to_dict_raw(session) ==
    [k \in DOMAIN session \cup {"has_password"} |->
        IF k = "has_password" THEN Truthy(session.password_hash) ELSE session[k]]

\* GameSession.to_dict: every field but password_hash, plus has_password.
to_dict(session) ==
    [k \in (DOMAIN session \ {"password_hash"}) \cup {"has_password"} |->
        IF k = "has_password" THEN Truthy(session.password_hash) ELSE session[k]]

\* is_full with the comparison off by one.
is_full_strict(session) == session.current_pilots > session.max_pilots

is_full(session) == session.current_pilots >= session.max_pilots

is_spectator_full(session) == session.current_spectators >= session.max_spectators

\* The dict self.sessions: assignment and pop, with the insertion order of its keys.
Put(S, k, v) == [x \in DOMAIN S \cup {k} |-> IF x = k THEN v ELSE S[x]]

\* A pop that empties the dict.
Drop_all(S, k) == [x \in {} |-> S[x]]

\* A pop that removes nothing.
Drop_keep(S, k) == S

\* dict.pop(k)
Drop(S, k) == [x \in DOMAIN S \ {k} |-> S[x]]

PutKey(o, k) == IF \E i \in 1..Len(o) : o[i] = k THEN o ELSE Append(o, k)
DropKey(o, k) == SelectSeq(o, LAMBDA x : x # k)

\* list.pop(i)
Pop(seq, i) == SubSeq(seq, 1, i - 1) \o SubSeq(seq, i + 1, Len(seq))

----------------------------------------------------------------------------
(* SessionManager: the methods, as functions of the registry *)

\* The password a create stores: only the digest, and only of a non-empty password.
PasswordHashOf(data) ==
    IF Truthy(Get(data, "password", "")) THEN sha256(data.password) ELSE ""

\* create_session: the GameSession built from the request data, id and clock.
NewSession(data, session_id, t) ==
    LET host_name == Get(data, "host_name", "Player_" \o Last6(data.host_steam_id))
    IN  [session_id |-> session_id,
         host_steam_id |-> data.host_steam_id,
         host_name |-> host_name,
         host_ip |-> Get(data, "host_ip", "0.0.0.0"),
         host_port |-> Get(data, "host_port", DefaultHostPort),
         room_name |-> Get(data, "room_name", Get(data, "host_name", "Unknown") \o "'s Room"),
         map_id |-> Get(data, "map_id", "MP-3fd"),
         track_id |-> Get(data, "track_id", ""),
         is_custom_track |-> Get(data, "is_custom_track", FALSE),
         game_mode |-> Get(data, "game_mode", "race"),
         max_pilots |-> Min(Get(data, "max_pilots", MaxPilotsCeiling), MaxPilotsCeiling),
         max_spectators |-> Min(Get(data, "max_spectators", MaxSpectatorsCeiling),
                                MaxSpectatorsCeiling),
         current_pilots |-> 1,
         current_spectators |-> 0,
         laps |-> Get(data, "laps", DefaultLaps),
         physics_mode |-> Get(data, "physics_mode", "sim"),
         allow_track_download |-> Get(data, "allow_track_download", TRUE),
         password_hash |-> PasswordHashOf(data),
         status |-> "lobby",
         created_at |-> isoformat(t),
         last_heartbeat |-> isoformat(t),
         players |-> << Player(data.host_steam_id, host_name, TRUE, FALSE) >>]

\* The allow-list with a ceiling in it.
updateable_wide ==
    {"status", "current_pilots", "current_spectators", "map_id",
     "track_id", "is_custom_track", "laps", "room_name", "max_pilots"}

\* update_session: the fields a request may set.
updateable ==
    {"status", "current_pilots", "current_spectators", "map_id",
     "track_id", "is_custom_track", "laps", "room_name"}

\* An update that takes last_heartbeat back to the creation of the session.
UpdatedSession_stale(session, data, t) ==
    [k \in DOMAIN session |->
        IF k = "last_heartbeat" THEN session.created_at
        ELSE IF k \in updateable /\ k \in DOMAIN data THEN data[k]
        ELSE session[k]]

\* An update that sets the fields and forgets the heartbeat.
UpdatedSession_untouched(session, data, t) ==
    [k \in DOMAIN session |->
        IF k \in updateable /\ k \in DOMAIN data THEN data[k] ELSE session[k]]

\* update_session: the session after the setattr loop and the heartbeat touch.
UpdatedSession(session, data, t) ==
    [k \in DOMAIN session |->
        IF k = "last_heartbeat" THEN isoformat(t)
        ELSE IF k \in updateable /\ k \in DOMAIN data THEN data[k]
        ELSE session[k]]

\* add_player: the counter a join increments, after its capacity check.
Counter(as_spectator) == IF as_spectator THEN "current_spectators" ELSE "current_pilots"

AtCapacity(session, as_spectator) ==
    IF as_spectator THEN is_spectator_full(session) ELSE is_full(session)

\* A join that hands the host role to the newcomer.
JoinedPlayer_host(player_data, as_spectator) ==
    Player(player_data.steam_id,
           Get(player_data, "name", "Player_" \o Last6(player_data.steam_id)),
           TRUE, as_spectator)

\* add_player: the player a join appends.
JoinedPlayer(player_data, as_spectator) ==
    Player(player_data.steam_id,
           Get(player_data, "name", "Player_" \o Last6(player_data.steam_id)),
           FALSE, as_spectator)

\* An increment that is lost.
Counted_lost(session, as_spectator) == session

\* add_player, up to the construction of the Player: the counter is incremented.
Counted(session, as_spectator) ==
    [session EXCEPT ![Counter(as_spectator)] = @ + 1]

\* add_player, complete: counter incremented and player appended.
WithPlayer(session, player_data, as_spectator) ==
    [Counted(session, as_spectator) EXCEPT
        !.players = Append(@, JoinedPlayer(player_data, as_spectator))]

\* remove_player: the index of the first player with this steam_id, 0 if none.
IndexOf(players, steam_id) ==
    IF \E i \in 1..Len(players) : players[i].steam_id = steam_id
    THEN CHOOSE i \in 1..Len(players) :
            /\ players[i].steam_id = steam_id
            /\ \A j \in 1..(i - 1) : players[j].steam_id # steam_id
    ELSE 0

\* A removal that always decrements the pilots.
WithoutPlayer_pilot(session, i) ==
    [session EXCEPT !.players = Pop(@, i), !.current_pilots = @ - 1]

\* remove_player: the session after players.pop(i) and the decrement.
WithoutPlayer(session, i) ==
    LET removed == session.players[i]
    IN  [session EXCEPT
            !.players = Pop(@, i),
            ![Counter(removed.is_spectator)] = @ - 1]

\* A leave that never cascades to the deletion of the session.
HostLeft_never(removed) == FALSE

\* remove_player: whether removing this player deletes the session.
HostLeft(removed) == removed.is_host

\* A test that takes a session of exactly the timeout for stale.
IsStale_ge(session, t) == t - fromisoformat(session.last_heartbeat) >= SessionTimeout

\* cleanup_stale_sessions: the test of one session.
IsStale(session, t) == t - fromisoformat(session.last_heartbeat) > SessionTimeout

\* cleanup_stale_sessions: the stale ids, in the order of the dict.
Stale(S, o, t) == SelectSeq(o, LAMBDA k : IsStale(S[k], t))

\* list.sort(key=created_at, reverse=True): stable, newest first.
RECURSIVE InsertDesc(_, _)
InsertDesc(d, sorted) ==
    IF sorted = <<>> THEN <<d>>
    ELSE IF fromisoformat(Head(sorted).created_at) >= fromisoformat(d.created_at)
         THEN <<Head(sorted)>> \o InsertDesc(d, Tail(sorted))
         ELSE <<d>> \o sorted

RECURSIVE SortDesc(_)
SortDesc(ds) ==
    IF ds = <<>> THEN <<>>
    ELSE InsertDesc(ds[Len(ds)], SortDesc(SubSeq(ds, 1, Len(ds) - 1)))

\* A listing that keeps the full sessions.
Listed_any(session, game_mode, has_slots) ==
    ~(Truthy(game_mode) /\ session.game_mode # game_mode)

\* list_sessions: the filter of one session; game_mode None means no filter.
Listed(session, game_mode, has_slots) ==
    /\ ~(Truthy(game_mode) /\ session.game_mode # game_mode)
    /\ ~(has_slots /\ is_full(session))

list_sessions(S, o, game_mode, has_slots) ==
    LET kept == SelectSeq(o, LAMBDA k : Listed(S[k], game_mode, has_slots))
    IN  SortDesc([i \in 1..Len(kept) |-> to_dict(S[kept[i]])])

----------------------------------------------------------------------------
(* The requests the model sends *)

CreateBodies ==
    { [host_steam_id |-> "S1"],
      [host_steam_id |-> "76561198000000002", host_name |-> "Ann",
       max_pilots |-> 1, max_spectators |-> 1, password |-> "pw",
       game_mode |-> "freestyle", host_ip |-> "6.6.6.6"],
      [host_steam_id |-> "S1", max_pilots |-> 0, max_spectators |-> 16,
       password |-> ""],
      [host_name |-> "Eve"],
      InvalidJson }

\* request.transport.get_extra_info('peername')[0], or None
Peers == {None, "10.0.0.1"}

\* The X-Forwarded-For header split at its commas, <<>> when the header is absent.
ForwardedHeaders == {<<>>, <<" 2.2.2.2 ", "3.3.3.3">>}

\* str.strip()
Strip(a) == IF a = " 2.2.2.2 " THEN "2.2.2.2" ELSE a

UpdateBodies ==
    { [current_pilots |-> 0, current_spectators |-> 0],
      [session_id |-> "ffffffff", host_steam_id |-> "S9", host_ip |-> "6.6.6.6",
       host_port |-> 1, max_pilots |-> 9, max_spectators |-> 99,
       password_hash |-> "", game_mode |-> "training",
       created_at |-> isoformat(0), players |-> <<>>,
       status |-> "in_race", laps |-> 5, room_name |-> "New", map_id |-> "MP-000",
       track_id |-> "T1", is_custom_track |-> TRUE],
      InvalidJson }

Empty == [k \in {} |-> k]

JoinBodies ==
    { a @@ b @@ c :
        a \in {Empty, [steam_id |-> "S1"]},
        b \in {Empty, [as_spectator |-> TRUE]},
        c \in {Empty, [password |-> "pw"], [password |-> "bad"]} }
    \cup {InvalidJson}

LeaveBodies ==
    { Empty, [steam_id |-> ""], [steam_id |-> "S1"],
      [steam_id |-> "76561198000000002"], InvalidJson }

\* The query string of GET /api/sessions: mode and available, each optional.
Queries ==
    { Empty, [available |-> "false"], [available |-> "TRUE"], [available |-> "1"],
      [mode |-> "race"], [mode |-> "freestyle", available |-> "false"],
      [mode |-> ""] }

\* str.lower()
Lower(a) == IF a = "TRUE" THEN "true" ELSE a

\* A create request that asks for more than the ceilings allow.
Oversized ==
    [host_steam_id |-> "S1", max_pilots |-> 7, max_spectators |-> 16,
     game_mode |-> "training"]

\* An update request that carries ceilings next to a field it may set.
CeilingBody == [max_pilots |-> 9, max_spectators |-> 99, room_name |-> "New"]

\* Create requests without host_steam_id: no JSON, an object without the field,
\* the empty object and a JSON scalar.
MalformedCreates == {InvalidJson, [host_name |-> "Eve"], Empty, JsonScalar}

\* Update requests that set the status alone: the three states of a race and a
\* word that is none of them.
StatusBodies ==
    { [status |-> "lobby"], [status |-> "in_race"], [status |-> "finished"],
      [status |-> "paused"] }

----------------------------------------------------------------------------
(* Broadcast tasks *)

\* asyncio.create_task(self.broadcast_update(event_type, data)): the arguments are
\* evaluated when the task is created.  subs is the set of healthy subscribers at
\* that moment.
NewTask(event_type, data) ==
    [type |-> event_type, data |-> data, pc |-> "ready",
     size |-> 0, pos |-> 0, visited |-> {}, dead |-> {},
     subs |-> {w \in websockets : wsState[w] = "open"}]

\* The tasks the model keeps: MaxTasks of them, and one more while a task is
\* suspended in a send with sockets of the set still to visit.
TaskRoom ==
    IF \E i \in 1..Len(tasks) :
            tasks[i].pc # "ready" /\ \E w \in websockets : w \notin tasks[i].visited
    THEN MaxTasks + 1 ELSE MaxTasks

Response(op, sid, status) == [op |-> op, sid |-> sid, status |-> status]

NoEnvelope == [type |-> "none"]

Hub == <<websockets, wsState, got, missed>>
Registry == <<sessions, order>>

----------------------------------------------------------------------------
(* The HTTP handlers *)

\* create_session (handler): host_ip from the peer, then from X-Forwarded-For.
WithHostIp(body, peer, fwd) ==
    LET observed == IF Truthy(peer) THEN Put(body, "host_ip", peer) ELSE body
    IN  IF fwd # <<>> THEN Put(observed, "host_ip", Strip(Head(fwd))) ELSE observed

\* POST /api/sessions; session_id is what str(uuid.uuid4())[:8] returns.
CreateSession(session_id, body, peer, fwd) ==
    /\ IF body = JsonScalar
       THEN \* TypeError in `'host_steam_id' not in data`: HTTP 500
            /\ resp' = Response("create", None, 500)
            /\ UNCHANGED <<sessions, order, tasks>>
       ELSE IF body = InvalidJson \/ "host_steam_id" \notin DOMAIN body
       THEN /\ resp' = Response("create", None, 400)
            /\ UNCHANGED <<sessions, order, tasks>>
       ELSE LET session == NewSession(WithHostIp(body, peer, fwd), session_id, now)
            IN  /\ Len(tasks) < TaskRoom
                /\ sessions' = Put(sessions, session_id, session)
                /\ order' = PutKey(order, session_id)
                /\ tasks' = Append(tasks, NewTask("session_created", to_dict(session)))
                /\ resp' = Response("create", session_id, 201)
    /\ UNCHANGED <<Hub, now, sweeper, joining>>

\* list_sessions (handler): the two query parameters as the registry takes them.
QueryMode(query) == Get(query, "mode", None)
QueryHasSlots(query) == Lower(Get(query, "available", "true")) = "true"

\* list_sessions (handler): the body of the response.
ListBody(query) ==
    LET listed == list_sessions(sessions, order, QueryMode(query), QueryHasSlots(query))
    IN  [sessions |-> listed, count |-> Len(listed)]

\* GET /api/sessions
ListSessions(query) ==
    /\ resp' = [op |-> "list", sid |-> None, status |-> 200,
                query |-> query, body |-> ListBody(query)]
    /\ UNCHANGED <<Registry, Hub, tasks, now, sweeper, joining>>

\* GET /api/sessions/{id}
GetStatus(session_id) == IF session_id \in DOMAIN sessions THEN 200 ELSE 404

GetSession(session_id) ==
    /\ resp' = Response("get", session_id, GetStatus(session_id))
    /\ UNCHANGED <<Registry, Hub, tasks, now, sweeper, joining>>

\* PUT /api/sessions/{id}
UpdateSession(session_id, body) ==
    /\ IF body = InvalidJson
       THEN /\ resp' = Response("update", session_id, 400)
            /\ UNCHANGED <<sessions, tasks>>
       ELSE IF session_id \notin DOMAIN sessions
       THEN /\ resp' = Response("update", session_id, 404)
            /\ UNCHANGED <<sessions, tasks>>
       ELSE LET session == UpdatedSession(sessions[session_id], body, now)
            IN  /\ Len(tasks) < TaskRoom
                /\ sessions' = Put(sessions, session_id, session)
                /\ tasks' = Append(tasks, NewTask("session_updated", to_dict(session)))
                /\ resp' = Response("update", session_id, 200)
    /\ UNCHANGED <<order, Hub, now, sweeper, joining>>

\* A delete that tells nobody.
Deleted_silent(session_id) ==
    /\ sessions' = Drop(sessions, session_id)
    /\ order' = DropKey(order, session_id)
    /\ tasks' = tasks

\* A delete that schedules its event twice.
Deleted_twice(session_id) ==
    /\ sessions' = Drop(sessions, session_id)
    /\ order' = DropKey(order, session_id)
    /\ tasks' = tasks \o << NewTask("session_deleted", [session_id |-> session_id]),
                           NewTask("session_deleted", [session_id |-> session_id]) >>

\* delete_session (manager): pop the session and schedule session_deleted.
Deleted(session_id) ==
    /\ sessions' = Drop(sessions, session_id)
    /\ order' = DropKey(order, session_id)
    /\ tasks' = Append(tasks, NewTask("session_deleted", [session_id |-> session_id]))

\* DELETE /api/sessions/{id}
DeleteSession(session_id) ==
    /\ IF session_id \in DOMAIN sessions
       THEN /\ Len(tasks) < TaskRoom
            /\ Deleted(session_id)
            /\ resp' = Response("delete", session_id, 200)
       ELSE /\ resp' = Response("delete", session_id, 404)
            /\ UNCHANGED <<Registry, tasks>>
    /\ UNCHANGED <<Hub, now, sweeper, joining>>

\* A heartbeat that keeps every session alive.
HeartbeatSession_all(session_id) ==
    /\ IF session_id \in DOMAIN sessions
       THEN /\ sessions' = [k \in DOMAIN sessions |->
                    [sessions[k] EXCEPT !.last_heartbeat = isoformat(now)]]
            /\ resp' = Response("heartbeat", session_id, 200)
       ELSE /\ resp' = Response("heartbeat", session_id, 404)
            /\ UNCHANGED sessions
    /\ UNCHANGED <<order, Hub, tasks, now, sweeper, joining>>

\* POST /api/sessions/{id}/heartbeat
HeartbeatSession(session_id) ==
    /\ IF session_id \in DOMAIN sessions
       THEN /\ sessions' = [sessions EXCEPT ![session_id].last_heartbeat = isoformat(now)]
            /\ resp' = Response("heartbeat", session_id, 200)
       ELSE /\ resp' = Response("heartbeat", session_id, 404)
            /\ UNCHANGED sessions
    /\ UNCHANGED <<order, Hub, tasks, now, sweeper, joining>>

\* A password check that lets a request without a password through.
PasswordOk_lax(session, body) ==
    (Truthy(session.password_hash) /\ "password" \in DOMAIN body)
        => sha256(body.password) = session.password_hash

\* A password check that comes after the capacity check: a full session is
\* refused for its capacity, whatever the password.
PasswordOk_late(session, body) ==
    \/ AtCapacity(session, Get(body, "as_spectator", FALSE))
    \/ Truthy(session.password_hash)
            => sha256(Get(body, "password", "")) = session.password_hash

\* join_session: the password check of a protected session.
PasswordOk(session, body) ==
    Truthy(session.password_hash)
        => sha256(Get(body, "password", "")) = session.password_hash

\* join_session from the return of `await request.json()` to its response: no
\* await in between.
JoinHandled(session_id, body) ==
    /\ IF body = InvalidJson
       THEN /\ resp' = Response("join", session_id, 400)
            /\ UNCHANGED <<sessions, tasks>>
       ELSE IF session_id \notin DOMAIN sessions
       THEN /\ resp' = Response("join", session_id, 404)
            /\ UNCHANGED <<sessions, tasks>>
       ELSE IF ~PasswordOk(sessions[session_id], body)
       THEN /\ resp' = Response("join", session_id, 403)
            /\ UNCHANGED <<sessions, tasks>>
       ELSE LET session == sessions[session_id]
                as_spectator == Get(body, "as_spectator", FALSE)
            IN  IF AtCapacity(session, as_spectator)
                THEN /\ resp' = Response("join", session_id, 409)
                     /\ UNCHANGED <<sessions, tasks>>
                ELSE IF "steam_id" \notin DOMAIN body
                THEN \* KeyError in Player(...), after the increment: HTTP 500
                     /\ session[Counter(as_spectator)] < MaxPlayers
                     /\ sessions' = Put(sessions, session_id, Counted(session, as_spectator))
                     /\ resp' = Response("join", session_id, 500)
                     /\ UNCHANGED tasks
                ELSE /\ Len(session.players) < MaxPlayers
                     /\ Len(tasks) < TaskRoom
                     /\ sessions' = Put(sessions, session_id,
                                        WithPlayer(session, body, as_spectator))
                     /\ tasks' = Append(tasks, NewTask("player_joined",
                            [session_id |-> session_id,
                             player |-> JoinedPlayer(body, as_spectator)]))
                     /\ resp' = Response("join", session_id, 200)
    /\ UNCHANGED <<order, Hub, now, sweeper>>

\* POST /api/sessions/{id}/join, with no other handler running while the body
\* is read.
JoinSession(session_id, body) ==
    /\ JoinHandled(session_id, body)
    /\ UNCHANGED joining

\* join_session up to `await request.json()`: the handler has the id of the path
\* and waits for the body, while other handlers and tasks run.
JoinArrive(c, session_id, body) ==
    /\ joining[c].pc # "reading"
    /\ joining' = [joining EXCEPT ![c] =
            [pc |-> "reading", session_id |-> session_id, body |-> body]]
    /\ UNCHANGED <<Registry, Hub, tasks, now, sweeper, resp>>

\* The body has arrived: the handler resumes and runs to its response.  with is
\* the set of the clients whose join was still waiting for its body then.
JoinResume(c) ==
    /\ joining[c].pc = "reading"
    /\ JoinHandled(joining[c].session_id, joining[c].body)
    /\ joining' = [joining EXCEPT ![c] =
            [pc |-> "done", session_id |-> @.session_id, body |-> @.body,
             status |-> resp'.status,
             with |-> {x \in Clients \ {c} : joining[x].pc = "reading"}]]

\* POST /api/sessions/{id}/leave
LeaveSession(session_id, body) ==
    /\ IF body = InvalidJson \/ ~Truthy(Get(body, "steam_id", ""))
       THEN /\ resp' = Response("leave", session_id, 400)
            /\ UNCHANGED <<Registry, tasks>>
       ELSE IF session_id \notin DOMAIN sessions
       THEN /\ resp' = Response("leave", session_id, 404)
            /\ UNCHANGED <<Registry, tasks>>
       ELSE LET session == sessions[session_id]
                i == IndexOf(session.players, body.steam_id)
            IN  IF i = 0
                THEN /\ resp' = Response("leave", session_id, 404)
                     /\ UNCHANGED <<Registry, tasks>>
                ELSE /\ Len(tasks) < TaskRoom
                     /\ resp' = Response("leave", session_id, 200)
                     /\ IF HostLeft(session.players[i])
                        THEN Deleted(session_id)
                        ELSE /\ sessions' = Put(sessions, session_id, WithoutPlayer(session, i))
                             /\ tasks' = Append(tasks, NewTask("player_left",
                                    [session_id |-> session_id, steam_id |-> body.steam_id]))
                             /\ UNCHANGED order
    /\ UNCHANGED <<Hub, now, sweeper, joining>>

\* join_session: the body of the answer to a successful join.
JoinBody(session_id) ==
    LET session == sessions[session_id]
    IN  [status |-> "joined",
         connection |-> [host_ip |-> session.host_ip, host_port |-> session.host_port,
                         session_id |-> session_id],
         track |-> [map_id |-> session.map_id, track_id |-> session.track_id,
                    is_custom |-> session.is_custom_track,
                    download_allowed |-> session.allow_track_download]]

\* The body of the last response, for the responses that carry data of a session.
ResponseBody ==
    CASE resp.op \in {"create", "get", "update"} /\ resp.status \in {200, 201} ->
            to_dict(sessions[resp.sid])
      [] resp.op = "join" /\ resp.status = 200 -> JoinBody(resp.sid)
      [] resp.op = "list" -> resp.body
      [] OTHER -> Empty

----------------------------------------------------------------------------
(* The sweep *)

Range(seq) == {seq[i] : i \in 1..Len(seq)}

\* cleanup_task: one cycle, cleanup_stale_sessions.
CleanupStaleSessions ==
    LET stale == Stale(sessions, order, now)
    IN  /\ sweeper = "running"
        /\ Len(tasks) + Len(stale) <= TaskRoom
        /\ sessions' = [k \in DOMAIN sessions \ Range(stale) |-> sessions[k]]
        /\ order' = SelectSeq(order, LAMBDA k : k \notin Range(stale))
        /\ tasks' = tasks \o [i \in 1..Len(stale) |->
                        NewTask("session_deleted", [session_id |-> stale[i]])]
        /\ resp' = Response("sweep", None, Len(stale))
        /\ UNCHANGED <<Hub, now, sweeper, joining>>

\* A cycle in which an exception is raised.  Neither cleanup_stale_sessions nor
\* the loop of cleanup_task catches anything: the exception ends the cycle where
\* it is raised and the task with it.  done is the number of stale sessions
\* deleted before the raise, 0 when it comes while the sessions are examined.
CleanupRaises(done) ==
    LET stale == Stale(sessions, order, now)
        deleted == SubSeq(stale, 1, done)
    IN  /\ sweeper = "running"
        /\ order # <<>>
        /\ done = 0 \/ done < Len(stale)
        /\ Len(tasks) + done <= TaskRoom
        /\ sessions' = [k \in DOMAIN sessions \ Range(deleted) |-> sessions[k]]
        /\ order' = SelectSeq(order, LAMBDA k : k \notin Range(deleted))
        /\ tasks' = tasks \o [i \in 1..done |->
                        NewTask("session_deleted", [session_id |-> deleted[i]])]
        /\ sweeper' = "failed"
        /\ resp' = Response("sweep_raised", None, done)
        /\ UNCHANGED <<Hub, now, joining>>

\* The clock advances.
Tick(d) ==
    /\ now + d <= MaxTime
    /\ now' = now + d
    /\ UNCHANGED <<Registry, Hub, tasks, sweeper, joining, resp>>

----------------------------------------------------------------------------
(* The WebSocket handler *)

\* A socket leaves the healthy subscribers: nothing is owed to it any more, and
\* a connection that follows it is another object than the one a task found dead.
Forget(w) ==
    /\ missed' = [missed EXCEPT ![w] = {}]
    /\ tasks' = [i \in 1..Len(tasks) |->
                    [tasks[i] EXCEPT !.subs = @ \ {w}, !.dead = @ \ {w}]]

\* GET /ws: prepare, websockets.add(ws) and the write of the initial snapshot.
\* When that write raises, the handler ends outside its try/finally.
WsConnect(w, sent) ==
    /\ wsState[w] = "closed"
    /\ w \notin websockets
    /\ websockets' = websockets \cup {w}
    /\ IF sent
       THEN /\ wsState' = [wsState EXCEPT ![w] = "open"]
            /\ got' = [got EXCEPT ![w] =
                    [type |-> "initial",
                     data |-> [sessions |-> list_sessions(sessions, order, None, TRUE)]]]
       ELSE /\ wsState' = [wsState EXCEPT ![w] = "ended"]
            /\ UNCHANGED got
    /\ UNCHANGED <<Registry, tasks, missed, now, sweeper, joining, resp>>

\* An inbound {"type": "ping"}: the handler answers pong.
WsPing(w) ==
    /\ wsState[w] = "open"
    /\ got' = [got EXCEPT ![w] = [type |-> "pong"]]
    /\ UNCHANGED <<Registry, websockets, wsState, tasks, missed, now, sweeper, joining, resp>>

\* The peer goes away: from now on a write to the socket raises.
WsBreak(w) ==
    /\ wsState[w] = "open"
    /\ wsState' = [wsState EXCEPT ![w] = "broken"]
    /\ Forget(w)
    /\ UNCHANGED <<Registry, websockets, got, now, sweeper, joining, resp>>

\* The peer stops reading without an error: a send to it no longer completes,
\* and the receive loop of its handler does not end.
WsStall(w) ==
    /\ wsState[w] = "open"
    /\ wsState' = [wsState EXCEPT ![w] = "stalled"]
    /\ Forget(w)
    /\ UNCHANGED <<Registry, websockets, got, now, sweeper, joining, resp>>

\* An inbound text that is no JSON, or a JSON object of another type than ping:
\* the handler does nothing with it.
WsIgnored(w) ==
    /\ wsState[w] = "open"
    /\ UNCHANGED vars

\* An inbound text that is JSON but no object: data.get raises AttributeError,
\* which `except json.JSONDecodeError` lets through; the receive loop ends and
\* finally discards the socket.
WsGarbage(w) ==
    /\ wsState[w] = "open"
    /\ websockets' = websockets \ {w}
    /\ wsState' = [wsState EXCEPT ![w] = "closed"]
    /\ got' = [got EXCEPT ![w] = NoEnvelope]
    /\ Forget(w)
    /\ UNCHANGED <<Registry, now, sweeper, joining, resp>>

\* A disconnect that takes the sessions with it.
WsDisconnect_purging(w) ==
    /\ wsState[w] \in {"open", "broken"}
    /\ websockets' = websockets \ {w}
    /\ wsState' = [wsState EXCEPT ![w] = "closed"]
    /\ got' = [got EXCEPT ![w] = NoEnvelope]
    /\ Forget(w)
    /\ sessions' = Empty
    /\ order' = <<>>
    /\ UNCHANGED <<now, sweeper, joining, resp>>

\* The receive loop ends: finally: websockets.discard(ws).
WsDisconnect(w) ==
    /\ wsState[w] \in {"open", "broken"}
    /\ websockets' = websockets \ {w}
    /\ wsState' = [wsState EXCEPT ![w] = "closed"]
    /\ got' = [got EXCEPT ![w] = NoEnvelope]
    /\ Forget(w)
    /\ UNCHANGED <<Registry, now, sweeper, joining, resp>>

\* GET /health: the body of the answer.
health_check ==
    [status |-> "healthy",
     active_sessions |-> Cardinality(DOMAIN sessions),
     connected_clients |-> Cardinality(websockets)]

----------------------------------------------------------------------------
(* broadcast_update *)

Envelope(task) == [type |-> task.type, data |-> task.data]

EventKey(task) == [type |-> task.type, session_id |-> task.data.session_id]

\* for ws in self.websockets: a set iterates in the order of the slots of its
\* table, and a socket keeps its slot as long as it is in the set.
Slot(w) == CASE w = "w1" -> 1 [] w = "w2" -> 2

\* The sockets the iterator of this task has not passed yet.
Ahead(task) == {w \in websockets : Slot(w) > task.pos}

\* next(iterator): the socket of the lowest slot after the iterator's position.
IsNext(task, w) ==
    /\ w \in Ahead(task)
    /\ \A x \in Ahead(task) : Slot(w) <= Slot(x)

\* await ws.send_str(message) inside try/except: written, or added to dead_sockets;
\* a send to a peer that stopped reading never completes.
SendTo(task, w) ==
    [task EXCEPT !.pc = IF wsState[w] = "stalled" THEN "blocked" ELSE "iter",
                 !.pos = Slot(w),
                 !.visited = @ \cup {w},
                 !.dead = IF wsState[w] \in {"open", "stalled"} THEN @ ELSE @ \cup {w}]

Delivered(task, w) ==
    IF wsState[w] = "open" THEN [got EXCEPT ![w] = Envelope(task)] ELSE got

\* The task ends: who was owed the event and was not written to.
Owed(task) == task.subs \ (task.visited \ task.dead)

MissedAfter(task) ==
    [w \in WsIds |-> IF w \in Owed(task) THEN missed[w] \cup {EventKey(task)} ELSE missed[w]]

\* The oldest task that has not started: asyncio starts tasks in creation order.
FirstReady ==
    IF \E i \in 1..Len(tasks) : tasks[i].pc = "ready"
    THEN CHOOSE i \in 1..Len(tasks) :
            /\ tasks[i].pc = "ready"
            /\ \A j \in 1..(i - 1) : tasks[j].pc # "ready"
    ELSE 0

\* The set iterator's check: "Set changed size during iteration".
SizeChanged(task) == Cardinality(websockets) # task.size

\* The task starts and runs to its first send_str; with no subscriber it ends.
TaskStart(w) ==
    LET i == FirstReady
    IN  /\ i # 0
        /\ IF websockets = {}
           THEN /\ w = CHOOSE x \in WsIds : TRUE
                /\ tasks' = Pop(tasks, i)
                /\ missed' = MissedAfter(tasks[i])
                /\ UNCHANGED got
           ELSE /\ IsNext(tasks[i], w)
                /\ tasks' = [tasks EXCEPT ![i] =
                        SendTo([@ EXCEPT !.size = Cardinality(websockets)], w)]
                /\ got' = Delivered(tasks[i], w)
                /\ UNCHANGED missed
        /\ UNCHANGED <<Registry, websockets, wsState, now, sweeper, joining, resp>>

\* The next turn of the loop: one more socket of the set.
TaskSend(i, w) ==
    /\ i \in 1..Len(tasks)
    /\ tasks[i].pc = "iter"
    /\ ~SizeChanged(tasks[i])
    /\ IsNext(tasks[i], w)
    /\ tasks' = [tasks EXCEPT ![i] = SendTo(@, w)]
    /\ got' = Delivered(tasks[i], w)
    /\ UNCHANGED <<Registry, websockets, wsState, missed, now, sweeper, joining, resp>>

\* The set changed size while the task was suspended: RuntimeError ends the task.
TaskCrash(i) ==
    /\ i \in 1..Len(tasks)
    /\ tasks[i].pc = "iter"
    /\ SizeChanged(tasks[i])
    /\ tasks' = Pop(tasks, i)
    /\ missed' = MissedAfter(tasks[i])
    /\ UNCHANGED <<Registry, websockets, wsState, got, now, sweeper, joining, resp>>

\* The dead sockets whose handler has ended: once out of the set they are gone.
Gone(task) == {w \in task.dead : wsState[w] = "ended"}

\* The loop is exhausted: self.websockets -= dead_sockets.
TaskFinish(i) ==
    /\ i \in 1..Len(tasks)
    /\ tasks[i].pc = "iter"
    /\ ~SizeChanged(tasks[i])
    /\ Ahead(tasks[i]) = {}
    /\ websockets' = websockets \ tasks[i].dead
    /\ wsState' = [w \in WsIds |->
            IF w \in Gone(tasks[i]) THEN "closed" ELSE wsState[w]]
    /\ tasks' = [k \in 1..(Len(tasks) - 1) |->
                    [Pop(tasks, i)[k] EXCEPT !.dead = @ \ Gone(tasks[i])]]
    /\ missed' = MissedAfter(tasks[i])
    /\ UNCHANGED <<Registry, got, now, sweeper, joining, resp>>

----------------------------------------------------------------------------
(* The system *)

Init ==
    /\ sessions = Empty
    /\ order = <<>>
    /\ websockets = {}
    /\ wsState = [w \in WsIds |-> "closed"]
    /\ tasks = <<>>
    /\ got = [w \in WsIds |-> NoEnvelope]
    /\ missed = [w \in WsIds |-> {}]
    /\ now = 0
    /\ sweeper = "running"
    /\ joining = [c \in Clients |-> [pc |-> "idle"]]
    /\ resp = Response("init", None, 0)

\* The requests of the clients, drawn from the given inputs.
Requests(ids, creates, peers, headers, updates, joins, leaves) ==
    \/ \E id \in ids, b \in creates, p \in peers, f \in headers :
            CreateSession(id, b, p, f)
    \/ \E id \in ids : GetSession(id)
    \/ \E id \in ids, b \in updates : UpdateSession(id, b)
    \/ \E id \in ids : DeleteSession(id)
    \/ \E id \in ids : HeartbeatSession(id)
    \/ \E id \in ids, b \in joins : JoinSession(id, b)
    \/ \E id \in ids, b \in leaves : LeaveSession(id, b)

\* The broadcast tasks and the sockets.
HubSteps ==
    \/ \E w \in WsIds, sent \in BOOLEAN : WsConnect(w, sent)
    \/ \E w \in WsIds : WsPing(w)
    \/ \E w \in WsIds : WsBreak(w)
    \/ \E w \in WsIds : WsDisconnect(w)
    \/ \E w \in WsIds : TaskStart(w)
    \/ \E i \in 1..(MaxTasks + 1), w \in WsIds : TaskSend(i, w)
    \/ \E i \in 1..(MaxTasks + 1) : TaskCrash(i)
    \/ \E i \in 1..(MaxTasks + 1) : TaskFinish(i)

\* Spec: one session id, every well-formed request body, no subscriber: the
\* registry alone.  No handler reads the hub and no hub action writes the
\* registry, so what the registry does here it does with subscribers connected.
\* The clock stands still: only the sweep depends on the time that has passed,
\* and it runs in PairSpec and SweepSpec.
Next ==
    \/ Requests({"0a1b2c3d"}, CreateBodies \ {InvalidJson}, {"10.0.0.1"}, {<<>>},
                UpdateBodies \ {InvalidJson}, JoinBodies \ {InvalidJson},
                LeaveBodies \ {InvalidJson})
    \/ \E w \in WsIds : TaskStart(w)

Spec == Init /\ [][Next]_vars

\* PairSpec: two session ids, so that uuid4 may or may not return a live id, with
\* few request bodies.
PairNext ==
    \/ Requests(SessionIds,
                {[host_steam_id |-> "S1"],
                 [host_steam_id |-> "S1", max_pilots |-> 0, max_spectators |-> 16,
                  password |-> ""]},
                {"10.0.0.1"}, {<<>>},
                {[current_pilots |-> 0, current_spectators |-> 0]},
                {[steam_id |-> "S1"]},
                {[steam_id |-> "S1"]})
    \/ CleanupStaleSessions
    \/ Tick(121)
    \/ \E w \in WsIds : TaskStart(w)

PairSpec == Init /\ [][PairNext]_vars

\* SweepSpec: the hub with its subscribers; the registry holds at most one
\* session, created with the defaults and deleted by the sweep alone.
SweepNext ==
    \/ CreateSession("0a1b2c3d", [host_steam_id |-> "S1"], "10.0.0.1", <<>>)
    \/ HeartbeatSession("0a1b2c3d")
    \/ CleanupStaleSessions
    \/ \E d \in TickSteps : Tick(d)
    \/ HubSteps

SweepSpec == Init /\ [][SweepNext]_vars

\* The create request of a small session: one pilot slot, which the host takes,
\* one spectator slot, a password and its own game mode.
SmallProtected ==
    [host_steam_id |-> "76561198000000002", host_name |-> "Ann",
     max_pilots |-> 1, max_spectators |-> 1, password |-> "pw",
     game_mode |-> "freestyle", host_ip |-> "6.6.6.6"]

\* ListSpec: two session ids, open and full sessions of two game modes, and the
\* listing under every query.
ListNext ==
    \/ \E id \in SessionIds, b \in {[host_steam_id |-> "S1"], SmallProtected} :
            CreateSession(id, b, "10.0.0.1", <<>>)
    \/ \E id \in SessionIds : JoinSession(id, [steam_id |-> "S1"])
    \/ \E id \in SessionIds : DeleteSession(id)
    \/ \E q \in Queries : ListSessions(q)
    \/ Tick(121)
    \/ \E w \in WsIds : TaskStart(w)

ListSpec == Init /\ [][ListNext]_vars

\* ExposeSpec: one session id, with and without a password, the responses that
\* render a session and one subscriber that connects, listens and leaves.
ExposeNext ==
    \/ \E b \in {[host_steam_id |-> "S1"], SmallProtected} :
            CreateSession("0a1b2c3d", b, "10.0.0.1", <<>>)
    \/ GetSession("0a1b2c3d")
    \/ \E b \in UpdateBodies \ {InvalidJson} : UpdateSession("0a1b2c3d", b)
    \/ JoinSession("0a1b2c3d", [steam_id |-> "S1", as_spectator |-> TRUE,
                                password |-> "pw"])
    \/ ListSessions([available |-> "false"])
    \/ \E sent \in BOOLEAN : WsConnect("w1", sent)
    \/ WsDisconnect("w1")
    \/ \E w \in WsIds : TaskStart(w)
    \/ \E i \in 1..(MaxTasks + 1) : TaskCrash(i)
    \/ \E i \in 1..(MaxTasks + 1) : TaskFinish(i)

ExposeSpec == Init /\ [][ExposeNext]_vars

\* HubSpec: one session created and deleted, again and again, while two
\* subscribers connect, break and disconnect.  Every mutation event takes the
\* same way to the subscribers, broadcast_update.
HubNext ==
    \/ CreateSession("0a1b2c3d", [host_steam_id |-> "S1"], "10.0.0.1", <<>>)
    \/ DeleteSession("0a1b2c3d")
    \/ HubSteps

HubSpec == Init /\ [][HubNext]_vars

\* StallSpec: the hub with a subscriber that may stop reading.  The event loop
\* runs every task that is ready to run, hence the weak fairness of the steps
\* of the broadcast tasks.
StallNext ==
    \/ CreateSession("0a1b2c3d", [host_steam_id |-> "S1"], "10.0.0.1", <<>>)
    \/ DeleteSession("0a1b2c3d")
    \/ \E w \in WsIds : WsStall(w)
    \/ HubSteps

StallSpec ==
    /\ Init /\ [][StallNext]_vars
    /\ WF_vars(\E w \in WsIds : TaskStart(w))
    /\ WF_vars(\E i \in 1..(MaxTasks + 1), w \in WsIds : TaskSend(i, w))
    /\ WF_vars(\E i \in 1..(MaxTasks + 1) : TaskCrash(i))
    /\ WF_vars(\E i \in 1..(MaxTasks + 1) : TaskFinish(i))

\* InputSpec: what a client controls of a request: the body, the forwarding
\* header, and whether the transport knows its peer.
InputNext ==
    \/ \E id \in SessionIds, b \in {[host_steam_id |-> "S1"], SmallProtected},
          p \in Peers, f \in ForwardedHeaders :
            CreateSession(id, b, p, f)
    \/ \E b \in MalformedCreates : CreateSession("0a1b2c3d", b, "10.0.0.1", <<>>)
    \/ \E id \in SessionIds, b \in StatusBodies : UpdateSession(id, b)
    \/ \E id \in SessionIds : DeleteSession(id)
    \/ \E w \in WsIds : TaskStart(w)

InputSpec == Init /\ [][InputNext]_vars

\* CeilingSpec: sessions created within and beyond the ceilings, and updates
\* that carry ceilings.
CeilingNext ==
    \/ \E id \in SessionIds, b \in {[host_steam_id |-> "S1"], Oversized, SmallProtected} :
            CreateSession(id, b, "10.0.0.1", <<>>)
    \/ \E id \in SessionIds, b \in {CeilingBody, [status |-> "in_race"]} :
            UpdateSession(id, b)
    \/ \E id \in SessionIds : DeleteSession(id)
    \/ \E w \in WsIds : TaskStart(w)

CeilingSpec == Init /\ [][CeilingNext]_vars

\* ExpirySpec: two sessions kept alive, or not, by heartbeats and updates while
\* the clock reaches the timeout and passes it, and the sweep.
ExpiryNext ==
    \/ \E id \in SessionIds :
            CreateSession(id, [host_steam_id |-> "S1"], "10.0.0.1", <<>>)
    \/ \E id \in SessionIds : HeartbeatSession(id)
    \/ \E id \in SessionIds : UpdateSession(id, [status |-> "in_race"])
    \/ CleanupStaleSessions
    \/ \E d \in TickSteps : Tick(d)
    \/ \E w \in WsIds : TaskStart(w)

ExpirySpec == Init /\ [][ExpiryNext]_vars

\* FaultSpec: the sweep over two sessions, with cycles that raise.
FaultNext ==
    \/ \E id \in SessionIds :
            CreateSession(id, [host_steam_id |-> "S1"], "10.0.0.1", <<>>)
    \/ \E id \in SessionIds : HeartbeatSession(id)
    \/ CleanupStaleSessions
    \/ \E done \in 0..1 : CleanupRaises(done)
    \/ Tick(121)
    \/ \E w \in WsIds : TaskStart(w)

FaultSpec == Init /\ [][FaultNext]_vars

\* The create request of a session for two pilots: the host and one more.
Duo == [host_steam_id |-> "76561198000000002", max_pilots |-> 2]

\* RaceSpec: two clients whose join requests for the same session are read
\* while the session is created, deleted and swept.
RaceNext ==
    \/ CreateSession("0a1b2c3d", Duo, "10.0.0.1", <<>>)
    \/ DeleteSession("0a1b2c3d")
    \/ CleanupStaleSessions
    \/ Tick(121)
    \/ \E c \in Clients : JoinArrive(c, "0a1b2c3d", [steam_id |-> "S1"])
    \/ \E c \in Clients : JoinResume(c)
    \/ \E w \in WsIds : TaskStart(w)

RaceSpec == Init /\ [][RaceNext]_vars

\* SocketSpec: everything a subscriber can do, while one session is created.
SocketNext ==
    \/ CreateSession("0a1b2c3d", [host_steam_id |-> "S1"], "10.0.0.1", <<>>)
    \/ \E w \in WsIds : WsIgnored(w)
    \/ \E w \in WsIds : WsGarbage(w)
    \/ HubSteps

SocketSpec == Init /\ [][SocketNext]_vars

----------------------------------------------------------------------------
(* The claims *)

Live == DOMAIN sessions

Pilots(session) ==
    Cardinality({i \in 1..Len(session.players) : ~session.players[i].is_spectator})

Spectators(session) ==
    Cardinality({i \in 1..Len(session.players) : session.players[i].is_spectator})

\* C1: after every registry operation, every live session has current_pilots
\* equal to the number of non-spectator players of its list and
\* current_spectators equal to the number of spectator players of its list.
C1_CountersMatchPlayers ==
    \A k \in Live :
        /\ sessions[k].current_pilots = Pilots(sessions[k])
        /\ sessions[k].current_spectators = Spectators(sessions[k])

\* C2: in every reachable state every live session has current_pilots <=
\* max_pilots and current_spectators <= max_spectators, whatever the create input.
C2_CountersWithinCeilings ==
    \A k \in Live :
        /\ sessions[k].current_pilots <= sessions[k].max_pilots
        /\ sessions[k].current_spectators <= sessions[k].max_spectators

\* C3: every live session has exactly one player with is_host = true; it is the
\* first of the list and it is the player create seeded (the session's host).
C3_OneHostFirst ==
    \A k \in Live :
        LET players == sessions[k].players
        IN  /\ Len(players) >= 1
            /\ players[1].is_host
            /\ players[1].steam_id = sessions[k].host_steam_id
            /\ players[1].name = sessions[k].host_name
            /\ ~players[1].is_spectator
            /\ \A i \in 2..Len(players) : ~players[i].is_host

C3_Witness ==
    /\ resp.op = "leave" /\ resp.status = 200
    /\ resp.sid \in Live
    /\ Len(sessions[resp.sid].players) = 1
    /\ sessions[resp.sid].players[1].is_host

\* The player a leave request removes is the host of a live session.
RemovesHost(id, body) ==
    /\ body # InvalidJson
    /\ Truthy(Get(body, "steam_id", ""))
    /\ id \in Live
    /\ \E i \in 1..Len(sessions[id].players) :
        /\ sessions[id].players[i].steam_id = body.steam_id
        /\ \A j \in 1..(i - 1) : sessions[id].players[j].steam_id # body.steam_id
        /\ sessions[id].players[i].is_host

\* C4: a leave that removes the host removes the whole session in the same
\* step, so that get(id) is NotFound right after it; and no live session is
\* ever without its host player.
C4_HostLeaveDeletesSession ==
    /\ [][resp'.op = "leave" =>
            \A id \in SessionIds, b \in LeaveBodies :
                (RemovesHost(id, b) /\ LeaveSession(id, b))
                    => (id \notin DOMAIN sessions' /\ resp'.status = 200)]_vars
    /\ [](\A k \in Live : \E i \in 1..Len(sessions[k].players) :
            /\ sessions[k].players[i].is_host
            /\ sessions[k].players[i].steam_id = sessions[k].host_steam_id)

C4_Witness ==
    /\ resp.op = "leave" /\ resp.status = 200
    /\ resp.sid \notin Live
    /\ GetStatus(resp.sid) = 404

\* The ceiling a join request runs into is reached exactly.
JoinAtCeiling(id, body) ==
    /\ id \in Live
    /\ IF Get(body, "as_spectator", FALSE)
       THEN sessions[id].current_spectators = sessions[id].max_spectators
       ELSE sessions[id].current_pilots = sessions[id].max_pilots

\* The join in progress is answered with this status and changes nothing.
RefusedWith(status) ==
    /\ resp'.status = status
    /\ sessions' = sessions
    /\ tasks' = tasks

\* C5, as stated: a join as pilot at current_pilots = max_pilots (as spectator at
\* current_spectators = max_spectators) returns 409, changes no counter and no
\* player list and emits no event.
C5_JoinAtCeilingConflict ==
    [][resp'.op = "join" =>
        \A id \in SessionIds, b \in JoinBodies \ {InvalidJson} :
            (JoinAtCeiling(id, b) /\ JoinSession(id, b)) => RefusedWith(409)]_vars

\* The digest of the password a join supplies equals the digest the session stores.
DigestMatches(id, body) ==
    sha256(Get(body, "password", "")) = sessions[id].password_hash

\* C5, amended: the same, for a join that passes the password check: on an
\* unprotected session or with the matching password.
C5_JoinAtCeilingConflictAfterPassword ==
    [][resp'.op = "join" =>
       \A id \in SessionIds, b \in JoinBodies \ {InvalidJson} :
        (/\ JoinAtCeiling(id, b)
         /\ (sessions[id].password_hash = "" \/ DigestMatches(id, b))
         /\ JoinSession(id, b))
            => RefusedWith(409)]_vars

C5_Witness ==
    /\ resp.op = "join" /\ resp.status = 409
    /\ resp.sid \in Live
    /\ sessions[resp.sid].current_pilots = sessions[resp.sid].max_pilots
    /\ sessions[resp.sid].password_hash # ""

\* C6: a join on a password-protected session with a password whose digest
\* differs from the stored one (an omitted password included) returns 403,
\* increments no counter, appends no player and emits no event.
C6_WrongPasswordForbidden ==
    [][resp'.op = "join" =>
       \A id \in SessionIds, b \in JoinBodies \ {InvalidJson} :
        (/\ id \in Live
         /\ sessions[id].password_hash # ""
         /\ ~DigestMatches(id, b)
         /\ JoinSession(id, b))
            => RefusedWith(403)]_vars

C6_Witness ==
    /\ resp.op = "join" /\ resp.status = 403
    /\ resp.sid \in Live
    /\ sessions[resp.sid].password_hash = sha256("pw")
    /\ Len(sessions[resp.sid].players) = 1

\* C7: create with only host_steam_id supplied yields a live session with
\* current_pilots 1, current_spectators 0, max_pilots 6, max_spectators 15,
\* status lobby, game_mode race, laps 3 and exactly one player, the host, who
\* is no spectator.
C7_CreateDefaults ==
    [][resp'.op = "create" =>
       \A id \in SessionIds, h \in SteamIds, p \in Peers, f \in ForwardedHeaders :
        CreateSession(id, [host_steam_id |-> h], p, f)
            => /\ resp'.status = 201
               /\ id \in DOMAIN sessions'
               /\ sessions'[id].current_pilots = 1
               /\ sessions'[id].current_spectators = 0
               /\ sessions'[id].max_pilots = 6
               /\ sessions'[id].max_spectators = 15
               /\ sessions'[id].status = "lobby"
               /\ sessions'[id].game_mode = "race"
               /\ sessions'[id].laps = 3
               /\ Len(sessions'[id].players) = 1
               /\ sessions'[id].players[1].is_host
               /\ ~sessions'[id].players[1].is_spectator
               /\ sessions'[id].players[1].steam_id = h]_vars

C7_Witness ==
    /\ resp.op = "create" /\ resp.status = 201
    /\ resp.sid \in Live
    /\ sessions[resp.sid].host_name = "Player_S1"
    /\ sessions[resp.sid].room_name = "Unknown's Room"
    /\ sessions[resp.sid].max_pilots = 6

\* C8: a create never takes the id of a live session: every session live
\* before it is live and unchanged after it, and there is exactly one session more.
C8_CreateNeverOverwrites ==
    [][resp'.op = "create" =>
       \A id \in SessionIds, b \in CreateBodies, p \in Peers, f \in ForwardedHeaders :
        (resp'.status = 201 /\ CreateSession(id, b, p, f))
            => /\ \A k \in Live : k \in DOMAIN sessions' /\ sessions'[k] = sessions[k]
               /\ Cardinality(DOMAIN sessions') = Cardinality(Live) + 1]_vars

\* C9: an update changes no field outside status, current_pilots,
\* current_spectators, map_id, track_id, is_custom_track, laps, room_name and
\* last_heartbeat: ids, host, ceilings, digest, game_mode, created_at and the
\* player list stay as they were.
C9_UpdateOnlyAllowList ==
    [][resp'.op = "update" =>
       \A id \in SessionIds, b \in UpdateBodies \ {InvalidJson} :
        (id \in Live /\ UpdateSession(id, b))
            => /\ id \in DOMAIN sessions'
               /\ DOMAIN sessions'[id] = DOMAIN sessions[id]
               /\ \A field \in DOMAIN sessions[id] :
                    field \notin {"status", "current_pilots", "current_spectators",
                                  "map_id", "track_id", "is_custom_track", "laps",
                                  "room_name", "last_heartbeat"}
                        => sessions'[id][field] = sessions[id][field]]_vars

C9_Witness ==
    /\ resp.op = "update" /\ resp.status = 200
    /\ resp.sid \in Live
    /\ sessions[resp.sid].laps = 5
    /\ sessions[resp.sid].room_name = "New"
    /\ sessions[resp.sid].max_pilots = 1
    /\ sessions[resp.sid].password_hash = sha256("pw")
    /\ sessions[resp.sid].session_id = resp.sid

\* C10: every subscriber that is connected when the sweep removes a stale
\* session, and stays connected and writable, receives the session_deleted event
\* of that session: no broadcast of the event ends without having written to it.
C10_SweepDeletionReachesSubscribers ==
    \A w \in WsIds :
        wsState[w] = "open" =>
            \A e \in missed[w] : e.type # "session_deleted"

\* C11: the initial envelope a connecting client receives contains every session
\* that is live at the moment of the connection, the sessions with
\* current_pilots >= max_pilots included.
C11_InitialSnapshotComplete ==
    [][\A w \in WsIds :
        WsConnect(w, TRUE)
            => \A k \in Live :
                \E i \in 1..Len(got'[w].data.sessions) :
                    got'[w].data.sessions[i].session_id = k]_vars

\* The query asks for the sessions with a free pilot slot: available is absent
\* or spells true.
AsksAvailable(query) ==
    "available" \notin DOMAIN query \/ query.available \in {"true", "TRUE"}

\* The query names a game mode.
AsksMode(query) == "mode" \in DOMAIN query /\ query.mode # ""

\* The session passes the filters of the query.
Passes(session, query) ==
    /\ AsksAvailable(query) => session.current_pilots < session.max_pilots
    /\ AsksMode(query) => session.game_mode = query.mode

\* C12: list(available=true) contains no session with current_pilots >=
\* max_pilots, list(mode=m) contains no session whose game_mode differs from
\* m, and every live session that passes the requested filters is in the result.
C12_ListFilters ==
    resp.op = "list" =>
        LET listed == resp.body.sessions
        IN  /\ AsksAvailable(resp.query) =>
                \A i \in 1..Len(listed) :
                    listed[i].current_pilots < listed[i].max_pilots
            /\ AsksMode(resp.query) =>
                \A i \in 1..Len(listed) : listed[i].game_mode = resp.query.mode
            /\ \A k \in Live :
                Passes(sessions[k], resp.query) =>
                    \E i \in 1..Len(listed) :
                        /\ listed[i].session_id = k
                        /\ listed[i].current_pilots = sessions[k].current_pilots
                        /\ listed[i].game_mode = sessions[k].game_mode
            /\ resp.body.count = Len(listed)

C12_Witness ==
    /\ resp.op = "list"
    /\ resp.query = Empty
    /\ Cardinality(Live) = 2
    /\ Len(resp.body.sessions) = 1
    /\ \E k \in Live :
        /\ sessions[k].current_pilots >= sessions[k].max_pilots
        /\ sessions[k].game_mode = "freestyle"
        /\ resp.body.sessions[1].session_id # k

\* C13: the envelope of every successful create, update, delete, join and leave
\* is delivered to every subscriber that is in the set when the mutation commits
\* and whose sends do not fail, also when other subscribers connect, disconnect
\* or are dropped during the fan-out: no broadcast ends owing its event to a
\* subscriber that stayed connected and writable.
C13_EveryMutationReachesSubscribers ==
    \A w \in WsIds : wsState[w] = "open" => missed[w] = {}

\* Task i writes its envelope to the open socket w in this step.
WritesTo(i, w) ==
    /\ Len(tasks') = Len(tasks)
    /\ w \in tasks'[i].visited \ tasks[i].visited
    /\ wsState[w] = "open"

\* C14: each subscriber receives the mutation events in the order in which the
\* mutations committed, whatever the interleaving of mutations and sends: no
\* event is written to a subscriber whose last envelope is that of a different
\* mutation committed later.  Stated for broadcasts none of whose sends failed.
C14_DeliveryInCommitOrder ==
    [][\A i \in 1..Len(tasks), w \in WsIds :
        (WritesTo(i, w) /\ tasks[i].dead = {}) =>
            \A j \in (i + 1)..Len(tasks) :
                ~(/\ tasks[j].dead = {}
                  /\ w \in tasks[j].visited
                  /\ Envelope(tasks[j]) # Envelope(tasks[i])
                  /\ got[w] = Envelope(tasks[j]))]_vars

\* The broadcast task i, the only one that has started, ends in this step.
Ends(i) ==
    /\ i \in 1..Len(tasks)
    /\ tasks[i].pc # "ready"
    /\ \A j \in 1..Len(tasks) : j # i => tasks[j].pc = "ready"
    /\ Len(tasks') = Len(tasks) - 1

\* The last send of the task was written: it is suspended in a send that succeeds.
LastSendWritten(task) == \E w \in task.visited \ task.dead : Slot(w) = task.pos

\* C15: when a send to one subscriber fails, that subscriber is removed from the
\* subscriber set and every other subscriber still receives the event: a
\* broadcast with a failed send ends with its dead sockets out of the set and
\* owing its event to no subscriber.  (The mutation has committed and answered
\* before its broadcast starts.)
C15_FailedSendIsolated ==
    [][\A i \in 1..(MaxTasks + 1) :
        (Ends(i) /\ tasks[i].dead # {} /\ LastSendWritten(tasks[i]))
            => /\ websockets' \cap tasks[i].dead = {}
               /\ Owed(tasks[i]) = {}]_vars

\* C16: a subscriber whose send never completes is eventually dropped from the
\* subscriber set, and no broadcast waits indefinitely on one subscriber's send.
C16_StalledSubscriberDropped ==
    /\ \A w \in WsIds : (wsState[w] = "stalled") ~> (w \notin websockets)
    /\ \A i \in 1..(MaxTasks + 1) :
        (i <= Len(tasks) /\ tasks[i].pc = "blocked")
            ~> ~(i <= Len(tasks) /\ tasks[i].pc = "blocked")

\* C17: for every live session last_heartbeat never decreases across a step
\* (create, update, heartbeat, join, leave, sweep), the clock being
\* non-decreasing; and it is never ahead of the clock.
C17_HeartbeatMonotone ==
    /\ [][\A k \in Live \cap DOMAIN sessions' :
            fromisoformat(sessions'[k].last_heartbeat)
                >= fromisoformat(sessions[k].last_heartbeat)]_vars
    /\ [](\A k \in Live : fromisoformat(sessions[k].last_heartbeat) <= now)

C17_Witness ==
    /\ resp.op = "update" /\ resp.status = 200
    /\ resp.sid \in Live
    /\ now = 121
    /\ sessions[resp.sid].created_at = isoformat(0)
    /\ sessions[resp.sid].last_heartbeat = isoformat(121)

\* C18: delete(id) on a live session removes it, answers 200 and emits exactly
\* one session_deleted event whose data is the session id alone; on an absent id
\* it answers 404, leaves the registry unchanged and emits no event, so that a
\* second delete of the same id is a no-op.
C18_DeleteOnce ==
    [][resp'.op = "delete" =>
       \A id \in SessionIds :
        DeleteSession(id) =>
            IF id \in Live
            THEN /\ resp'.status = 200
                 /\ DOMAIN sessions' = Live \ {id}
                 /\ \A k \in Live \ {id} : sessions'[k] = sessions[k]
                 /\ Len(tasks') = Len(tasks) + 1
                 /\ SubSeq(tasks', 1, Len(tasks)) = tasks
                 /\ tasks'[Len(tasks')].type = "session_deleted"
                 /\ tasks'[Len(tasks')].data = [session_id |-> id]
            ELSE /\ resp'.status = 404
                 /\ sessions' = sessions
                 /\ order' = order
                 /\ tasks' = tasks]_vars

C18_Witness ==
    /\ resp.op = "delete" /\ resp.status = 404
    /\ resp.sid \notin Live
    /\ Live # {}
    /\ Len(tasks) = 1
    /\ tasks[1].type = "session_deleted"
    /\ tasks[1].data = [session_id |-> resp.sid]

\* The rendering d of a session carries no digest, and a has_password that is
\* true exactly when the digest of the session is not empty.
Hides(d, session) ==
    /\ "password_hash" \notin DOMAIN d
    /\ "has_password" \in DOMAIN d
    /\ d.has_password = (session.password_hash # "")

\* The envelope carries no digest, in its data or in the sessions it lists.
NoDigest(envelope) ==
    CASE envelope.type = "initial" ->
            \A i \in 1..Len(envelope.data.sessions) :
                /\ "password_hash" \notin DOMAIN envelope.data.sessions[i]
                /\ "has_password" \in DOMAIN envelope.data.sessions[i]
      [] envelope.type \in {"session_created", "session_updated"} ->
            /\ "password_hash" \notin DOMAIN envelope.data
            /\ "has_password" \in DOMAIN envelope.data
      [] envelope.type = "player_joined" ->
            DOMAIN envelope.data = {"session_id", "player"}
      [] OTHER -> TRUE

\* The event a mutation schedules in this step, and the snapshot a connection
\* gets, tell has_password as the registry has it.
TellsHasPassword ==
    /\ (Len(tasks') = Len(tasks) + 1
            /\ tasks'[Len(tasks')].type \in {"session_created", "session_updated"})
        => Hides(tasks'[Len(tasks')].data,
                 sessions'[tasks'[Len(tasks')].data.session_id])
    /\ \A w \in WsIds :
        (got'[w] # got[w] /\ got'[w].type = "initial")
            => \A i \in 1..Len(got'[w].data.sessions) :
                LET d == got'[w].data.sessions[i]
                IN  d.session_id \in Live /\ Hides(d, sessions[d.session_id])

\* No response body and no envelope, scheduled or written, carries a digest.
DigestHidden ==
    /\ (resp.op \in {"create", "get", "update"} /\ resp.status \in {200, 201})
        => Hides(ResponseBody, sessions[resp.sid])
    /\ (resp.op = "join" /\ resp.status = 200)
        => /\ DOMAIN ResponseBody = {"status", "connection", "track"}
           /\ DOMAIN ResponseBody.connection = {"host_ip", "host_port", "session_id"}
           /\ DOMAIN ResponseBody.track
                = {"map_id", "track_id", "is_custom", "download_allowed"}
    /\ resp.op = "list"
        => \A i \in 1..Len(ResponseBody.sessions) :
            LET d == ResponseBody.sessions[i]
            IN  d.session_id \in Live /\ Hides(d, sessions[d.session_id])
    /\ \A i \in 1..Len(tasks) : NoDigest(Envelope(tasks[i]))
    /\ \A w \in WsIds : NoDigest(got[w])

\* C19: the password digest of a session appears in no HTTP response body and
\* in no envelope sent to a subscriber (initial, session_created,
\* session_updated); only has_password is exposed, and it is true exactly when
\* the session has a non-empty digest.
C19_DigestNeverExposed == []DigestHidden /\ [][TellsHasPassword]_vars

C19_Witness ==
    /\ resp.op = "update" /\ resp.status = 200
    /\ resp.sid \in Live
    /\ sessions[resp.sid].password_hash = sha256("pw")
    /\ ResponseBody.has_password
    /\ got["w1"].type = "session_updated"
    /\ got["w1"].data.has_password

\* The session is live and would take the join: its password check passes and
\* the counter the join runs into is below its ceiling.
Joinable(id, body) ==
    /\ id \in Live
    /\ (sessions[id].password_hash = "" \/ DigestMatches(id, body))
    /\ IF Get(body, "as_spectator", FALSE)
       THEN sessions[id].current_spectators < sessions[id].max_spectators
       ELSE sessions[id].current_pilots < sessions[id].max_pilots

\* C20: a join whose body omits steam_id is rejected with 400 before the
\* registry is called, and leaves the counters and the player list of the
\* session unchanged.  Stated for a session that would take the join.
C20_JoinWithoutSteamIdRejected ==
    [][resp'.op = "join" =>
       \A id \in SessionIds, b \in JoinBodies \ {InvalidJson} :
        ("steam_id" \notin DOMAIN b /\ Joinable(id, b) /\ JoinSession(id, b))
            => RefusedWith(400)]_vars

\* C21: the host_ip of a created session is the peer address the server
\* observed, or the first address of the forwarding header when the header is
\* present; the host_ip of the request body never becomes the host_ip of the
\* session, with or without peer information, with or without the header.
C21_HostIpNeverFromBody ==
    [][resp'.op = "create" =>
       \A id \in SessionIds, b \in CreateBodies \ {InvalidJson},
          p \in Peers, f \in ForwardedHeaders :
        (resp'.status = 201 /\ CreateSession(id, b, p, f))
            => /\ f # <<>> => sessions'[id].host_ip = Strip(Head(f))
               /\ (f = <<>> /\ p # None) => sessions'[id].host_ip = p
               /\ "host_ip" \in DOMAIN b => sessions'[id].host_ip # b.host_ip]_vars

\* C22: in every reachable state the status of every live session is one of
\* lobby, in_race, finished, whatever the creates and updates that led to it.
C22_StatusInEnumeration ==
    \A k \in Live : sessions[k].status \in {"lobby", "in_race", "finished"}

\* The effect of a join that is taken: one non-host player with the asked role
\* at the end of the list, the matching counter one higher, everything before
\* as it was, and one player_joined event scheduled.
JoinTaken(id, body) ==
    LET old == sessions[id]
        new == sessions'[id]
        as_spectator == Get(body, "as_spectator", FALSE)
    IN  /\ resp'.status = 200
        /\ DOMAIN sessions' = DOMAIN sessions
        /\ Len(new.players) = Len(old.players) + 1
        /\ SubSeq(new.players, 1, Len(old.players)) = old.players
        /\ ~new.players[Len(new.players)].is_host
        /\ new.players[Len(new.players)].is_spectator = as_spectator
        /\ new[Counter(as_spectator)] = old[Counter(as_spectator)] + 1
        /\ new[Counter(~as_spectator)] = old[Counter(~as_spectator)]
        /\ Len(tasks') = Len(tasks) + 1
        /\ SubSeq(tasks', 1, Len(tasks)) = tasks
        /\ tasks'[Len(tasks')].type = "player_joined"
        /\ tasks'[Len(tasks')].data.session_id = id
        /\ tasks'[Len(tasks')].data.player = new.players[Len(new.players)]

\* C23: a join on a live session whose password check passes and whose relevant
\* ceiling is not reached appends exactly one player with is_host false and
\* is_spectator as asked at the end of the list, increments the matching
\* counter alone by one, leaves the earlier players unchanged and emits exactly
\* one player_joined event.
C23_JoinAppendsOnePlayer ==
    [][resp'.op = "join" =>
       \A id \in SessionIds, b \in JoinBodies \ {InvalidJson} :
        (Joinable(id, b) /\ JoinSession(id, b)) => JoinTaken(id, b)]_vars

\* The leave is answered 200 and removes the player at index i, who is not the
\* host: the list loses that entry alone, the counter of the player's role is
\* one lower, every other field and session is as it was, and one player_left
\* event is scheduled.
LeftAt(id, body, i) ==
    LET old == sessions[id]
        new == sessions'[id]
        role == Counter(old.players[i].is_spectator)
    IN  /\ resp'.status = 200
        /\ DOMAIN sessions' = DOMAIN sessions
        /\ order' = order
        /\ \A k \in Live \ {id} : sessions'[k] = sessions[k]
        /\ new.players = Pop(old.players, i)
        /\ new[role] = old[role] - 1
        /\ \A field \in DOMAIN old \ {"players", role} : new[field] = old[field]
        /\ Len(tasks') = Len(tasks) + 1
        /\ SubSeq(tasks', 1, Len(tasks)) = tasks
        /\ tasks'[Len(tasks')].type = "player_left"
        /\ tasks'[Len(tasks')].data = [session_id |-> id, steam_id |-> body.steam_id]

ProtectedAndFull(id, body) ==
    /\ id \in Live
    /\ sessions[id].password_hash # ""
    /\ IF Get(body, "as_spectator", FALSE)
       THEN sessions[id].current_spectators >= sessions[id].max_spectators
       ELSE sessions[id].current_pilots >= sessions[id].max_pilots

\* C25: join checks the password before the capacity: on a protected session
\* that is also full a join with a wrong password is answered 403 and a join
\* with the right password 409; on an unknown session id the answer is 404
\* whatever the password.  None of them changes anything.
C25_PasswordBeforeCapacity ==
    [][resp'.op = "join" =>
       \A id \in SessionIds, b \in JoinBodies \ {InvalidJson} :
        JoinSession(id, b) =>
            /\ id \notin Live => RefusedWith(404)
            /\ ProtectedAndFull(id, b) =>
                IF DigestMatches(id, b) THEN RefusedWith(409) ELSE RefusedWith(403)]_vars

C25_Witness ==
    /\ resp.op = "join" /\ resp.status = 403
    /\ resp.sid \in Live
    /\ sessions[resp.sid].password_hash # ""
    /\ sessions[resp.sid].current_pilots >= sessions[resp.sid].max_pilots
    /\ sessions[resp.sid].current_spectators >= sessions[resp.sid].max_spectators
    /\ Len(sessions[resp.sid].players) = 2

\* C26: a heartbeat on a live session sets the last_heartbeat of that session to
\* now and changes nothing else, of that session or of any other, is answered
\* 200 and sends no envelope to any subscriber; on an absent id it is answered
\* 404 and changes nothing.
C26_HeartbeatFrame ==
    [][resp'.op = "heartbeat" =>
       \A id \in SessionIds :
        HeartbeatSession(id) =>
            /\ tasks' = tasks
            /\ got' = got
            /\ order' = order
            /\ IF id \in Live
               THEN /\ resp'.status = 200
                    /\ DOMAIN sessions' = DOMAIN sessions
                    /\ sessions'[id].last_heartbeat = isoformat(now)
                    /\ \A field \in DOMAIN sessions[id] \ {"last_heartbeat"} :
                            sessions'[id][field] = sessions[id][field]
                    /\ \A k \in Live \ {id} : sessions'[k] = sessions[k]
               ELSE /\ resp'.status = 404
                    /\ sessions' = sessions]_vars

C26_Witness ==
    /\ resp.op = "heartbeat" /\ resp.status = 200
    /\ now = 121
    /\ Cardinality(Live) = 2
    /\ sessions[resp.sid].created_at = isoformat(0)
    /\ sessions[resp.sid].last_heartbeat = isoformat(121)
    /\ \E k \in Live \ {resp.sid} : sessions[k].last_heartbeat = isoformat(0)

\* The age of the last heartbeat of a session, in seconds.
Age(session) == now - fromisoformat(session.last_heartbeat)

\* C27: a sweep cycle deletes a session only if now - last_heartbeat is
\* strictly greater than the timeout at the time of the cycle: a session whose
\* last heartbeat or update is at most the timeout old, exactly the timeout
\* included, survives the cycle unchanged.
C27_SweepOnlyExpired ==
    [][resp'.op = "sweep" =>
        (CleanupStaleSessions =>
            \A k \in Live :
                /\ k \notin DOMAIN sessions' => Age(sessions[k]) > SessionTimeout
                /\ Age(sessions[k]) <= SessionTimeout =>
                        (k \in DOMAIN sessions' /\ sessions'[k] = sessions[k]))]_vars

C27_Witness ==
    /\ resp.op = "sweep" /\ resp.status = 0
    /\ Cardinality(Live) = 2
    /\ \E k \in Live : Age(sessions[k]) = SessionTimeout
    /\ \E k \in Live : Age(sessions[k]) = 0 /\ sessions[k].created_at = isoformat(0)

\* C28: when examining or deleting one session fails during a sweep cycle, the
\* cycle still deletes every other stale session, and the sweeper goes on to
\* run later cycles.
C28_SweepIsolatesFaults ==
    [][resp'.op = "sweep_raised" =>
       \A done \in 0..1 :
        CleanupRaises(done) =>
            /\ sweeper' = "running"
            /\ Cardinality(Range(Stale(sessions, order, now)) \cap DOMAIN sessions')
                    <= 1]_vars

\* Another client's join as pilot for the same session waits for its body, and
\* the session has exactly one free pilot slot.
RacesForLastSlot(c) ==
    LET id == joining[c].session_id
    IN  /\ id \in Live
        /\ sessions[id].current_pilots = sessions[id].max_pilots - 1
        /\ ~Get(joining[c].body, "as_spectator", FALSE)
        /\ \E x \in Clients \ {c} :
            /\ joining[x].pc = "reading"
            /\ joining[x].session_id = id
            /\ ~Get(joining[x].body, "as_spectator", FALSE)

\* C29: nothing runs between the checks of a join and its mutation.  Of two
\* pilot joins in flight for a session with exactly one free pilot slot the
\* first to run is taken and fills the session, and a join that runs on a full
\* session is answered 409 and changes nothing: exactly one of the two succeeds.
\* A join in flight while its session is deleted or swept is answered 404 and
\* changes nothing when it runs after the deletion, and is taken whole, player,
\* counter and event in one step, when it runs before.
C29_JoinsAtomic ==
    [][\A c \in Clients :
        JoinResume(c) =>
            LET id == joining[c].session_id
                b == joining[c].body
            IN  /\ id \notin Live => RefusedWith(404)
                /\ Joinable(id, b) => JoinTaken(id, b)
                /\ (id \in Live /\ ~Joinable(id, b)) =>
                        (RefusedWith(403) \/ RefusedWith(409))
                /\ RacesForLastSlot(c) =>
                        /\ resp'.status = 200
                        /\ is_full(sessions'[id])
                /\ (id \in Live /\ is_full(sessions[id])
                        /\ ~Get(b, "as_spectator", FALSE)) => RefusedWith(409)]_vars

C29_Witness ==
    \E c \in Clients, x \in Clients :
        /\ joining[c].pc = "done" /\ joining[c].status = 200
        /\ x \in joining[c].with
        /\ joining[x].pc = "done" /\ joining[x].status = 409
        /\ joining[x].session_id = joining[c].session_id
        /\ resp = Response("join", joining[x].session_id, 409)
        /\ joining[c].session_id \in Live
        /\ Len(sessions[joining[c].session_id].players) = 2
        /\ now = 0

\* A step of a subscriber: its connection, an inbound message, its failure or
\* its disconnection.
SubscriberStep(w) ==
    \/ \E sent \in BOOLEAN : WsConnect(w, sent)
    \/ WsPing(w)
    \/ WsIgnored(w)
    \/ WsGarbage(w)
    \/ WsBreak(w)
    \/ WsDisconnect(w)

\* A step of a broadcast: a send, written or failed, and the end of the task.
BroadcastStep ==
    \/ \E w \in WsIds : TaskStart(w)
    \/ \E i \in 1..(MaxTasks + 1), w \in WsIds : TaskSend(i, w)
    \/ \E i \in 1..(MaxTasks + 1) : TaskCrash(i)
    \/ \E i \in 1..(MaxTasks + 1) : TaskFinish(i)

\* C30: subscriber activity never changes the registry: a connection, an
\* inbound message (ping or other), a failed send and a disconnection leave the
\* session table as it was, and a disconnection takes that subscriber, and no
\* other, out of the subscriber set.
C30_SubscribersNeverMutate ==
    [][/\ ((\E w \in WsIds : SubscriberStep(w)) \/ BroadcastStep)
            => (sessions' = sessions /\ order' = order)
       /\ \A w \in WsIds :
            (WsDisconnect(w) \/ WsGarbage(w)) => websockets' = websockets \ {w}]_vars

C30_Witness ==
    /\ Live # {}
    /\ wsState["w1"] = "closed"
    /\ websockets = {"w2"}
    /\ wsState["w2"] = "open"
    /\ got["w2"] = [type |-> "pong"]
    /\ \E i \in 1..Len(tasks) : "w1" \in tasks[i].visited \ tasks[i].dead

\* C31: an update of a live session sets last_heartbeat to now, so that the
\* session is not stale until more than a full timeout after the update,
\* answers with the session as it is after the update and emits exactly one
\* session_updated event carrying it; an update of an absent id is answered
\* 404, changes nothing and emits no event.
C31_UpdateTouchesAndTells ==
    [][resp'.op = "update" =>
       \A id \in SessionIds, b \in StatusBodies :
        UpdateSession(id, b) =>
            IF id \in Live
            THEN /\ resp'.status = 200
                 /\ sessions'[id].last_heartbeat = isoformat(now)
                 /\ ~IsStale(sessions'[id], now + SessionTimeout)
                 /\ IsStale(sessions'[id], now + SessionTimeout + 1)
                 /\ sessions'[id].status = b.status
                 /\ ResponseBody' = to_dict(sessions'[id])
                 /\ Len(tasks') = Len(tasks) + 1
                 /\ SubSeq(tasks', 1, Len(tasks)) = tasks
                 /\ tasks'[Len(tasks')].type = "session_updated"
                 /\ tasks'[Len(tasks')].data = to_dict(sessions'[id])
            ELSE RefusedWith(404) /\ order' = order]_vars

C31_Witness ==
    /\ resp.op = "update" /\ resp.status = 200
    /\ resp.sid \in Live
    /\ now = SessionTimeout
    /\ sessions[resp.sid].created_at = isoformat(0)
    /\ sessions[resp.sid].last_heartbeat = isoformat(now)
    /\ sessions[resp.sid].status = "in_race"
    /\ Len(tasks) = 1
    /\ tasks[1].type = "session_updated"
    /\ tasks[1].data.last_heartbeat = isoformat(now)

\* C32: a create request whose body lacks host_steam_id, or is not valid JSON,
\* is answered 400, creates no session and emits no event.
C32_MalformedCreateRejected ==
    [][resp'.op = "create" =>
       \A id \in SessionIds, b \in MalformedCreates,
          p \in Peers, f \in ForwardedHeaders :
        CreateSession(id, b, p, f) => (RefusedWith(400) /\ order' = order)]_vars

\* The step is a create that takes the id k.
CreatesAt(k) ==
    /\ resp'.op = "create" /\ resp'.status = 201 /\ resp'.sid = k
    /\ \E b \in CreateBodies \cup {SmallProtected, Oversized},
          p \in Peers, f \in ForwardedHeaders : CreateSession(k, b, p, f)

\* C33: in every reachable state every live session has max_pilots <= 6 and
\* max_spectators <= 15, and the two ceilings of a session never change after
\* its creation: a step that leaves a session with other ceilings is the
\* create of a session under that id.
C33_CeilingsFixed ==
    /\ [](\A k \in Live :
            /\ sessions[k].max_pilots <= MaxPilotsCeiling
            /\ sessions[k].max_spectators <= MaxSpectatorsCeiling)
    /\ [][\A k \in Live \cap DOMAIN sessions' :
            (\/ sessions'[k].max_pilots # sessions[k].max_pilots
             \/ sessions'[k].max_spectators # sessions[k].max_spectators)
                => CreatesAt(k)]_vars

C33_Witness ==
    /\ resp.op = "update" /\ resp.status = 200
    /\ resp.sid \in Live
    /\ sessions[resp.sid].game_mode = "training"
    /\ sessions[resp.sid].room_name = "New"
    /\ sessions[resp.sid].max_pilots = 6
    /\ sessions[resp.sid].max_spectators = 15

\* C34: in every reachable state the number of non-spectator players in the
\* list of a live session is at most max_pilots, and the number of spectator
\* players at most max_spectators, also after updates that overwrite
\* current_pilots or current_spectators.  Stated for the sessions created with
\* room for their host (max_pilots >= 1).
C34_PlayersWithinCeilings ==
    \A k \in Live :
        sessions[k].max_pilots >= 1 =>
            /\ Pilots(sessions[k]) <= sessions[k].max_pilots
            /\ Spectators(sessions[k]) <= sessions[k].max_spectators

\* C35: within one live session no two players have the same steam_id, so that
\* a leave by an identity other than the host's never removes the host.
C35_IdentitiesUnique ==
    \A k \in Live :
        \A i, j \in 1..Len(sessions[k].players) :
            sessions[k].players[i].steam_id = sessions[k].players[j].steam_id => i = j

\* The step schedules exactly one broadcast task, of this type, behind the
\* tasks that were already scheduled.
Scheduled(type) ==
    /\ Len(tasks') = Len(tasks) + 1
    /\ SubSeq(tasks', 1, Len(tasks)) = tasks
    /\ tasks'[Len(tasks')].type = type

\* One event of this type when the request was answered 200 or 201, none
\* otherwise.
OneEventIfDone(type) ==
    IF resp'.status \in {200, 201} THEN Scheduled(type) ELSE tasks' = tasks

\* C36: every create, update, delete, join and leave that succeeds schedules
\* exactly one event, of the type of the mutation, and every one that fails
\* (not found, forbidden, conflict, validation error, or an exception) schedules
\* none; a leave that removes the host schedules exactly one session_deleted
\* and no player_left.
C36_OneEventPerMutation ==
    [][LET id == resp'.sid
       IN  /\ resp'.op = "create" =>
                \A k \in SessionIds, b \in CreateBodies \ {InvalidJson} :
                    CreateSession(k, b, "10.0.0.1", <<>>)
                        => OneEventIfDone("session_created")
           /\ resp'.op = "update" =>
                \A b \in UpdateBodies \ {InvalidJson} :
                    UpdateSession(id, b) => OneEventIfDone("session_updated")
           /\ resp'.op = "delete" =>
                (DeleteSession(id) => OneEventIfDone("session_deleted"))
           /\ resp'.op = "join" =>
                \A b \in JoinBodies \ {InvalidJson} :
                    JoinSession(id, b) => OneEventIfDone("player_joined")
           /\ resp'.op = "leave" =>
                \A b \in LeaveBodies \ {InvalidJson} :
                    LeaveSession(id, b) =>
                        OneEventIfDone(IF RemovesHost(id, b) THEN "session_deleted"
                                       ELSE "player_left")]_vars

\* The host has left: the session is gone and the one task scheduled is its
\* session_deleted.
C36_Witness ==
    /\ resp.op = "leave" /\ resp.status = 200
    /\ resp.sid \notin Live
    /\ Len(tasks) = 1
    /\ tasks[1].type = "session_deleted"
    /\ tasks[1].data.session_id = resp.sid
    /\ tasks[1].pc = "ready"

\* The first envelope written to a socket since it connected is its snapshot.
SnapshotComesFirst ==
    \A w \in WsIds :
        (got[w] = NoEnvelope /\ got'[w] # NoEnvelope) => got'[w].type = "initial"

\* A subscriber that has its snapshot and is still connected and writable is
\* owed no event committed since.
NothingOwedAfterSnapshot ==
    \A w \in websockets :
        (wsState[w] = "open" /\ got[w] # NoEnvelope) => missed[w] = {}

\* C37: the initial snapshot is the first envelope a subscriber receives, also
\* when broadcasts are pending or in progress while it connects, and every
\* mutation committed after the snapshot was computed is delivered to the
\* subscriber afterwards.
C37_SnapshotThenEveryEvent ==
    /\ [][SnapshotComesFirst]_vars
    /\ []NothingOwedAfterSnapshot

\* The sockets whose websocket_handler is still running: in its receive loop,
\* whether or not the peer is still there or still reading.
Handled == {w \in WsIds : wsState[w] \in {"open", "broken", "stalled"}}

\* C38: every socket in the subscriber set belongs to a connection whose
\* handler is still running, whatever ended the handlers that have ended, so
\* that connected_clients of the health endpoint counts running connections
\* only.
C38_SetHoldsRunningHandlersOnly ==
    /\ websockets \subseteq Handled
    /\ health_check.connected_clients = Cardinality(websockets \cap Handled)

\* Every live session other than id is still live after the step, with the
\* same fields, counters and players.
OthersUntouched(id) ==
    \A k \in Live \ {id} : k \in DOMAIN sessions' /\ sessions'[k] = sessions[k]

\* C39: an update, heartbeat, join, leave or delete addressed to one session id
\* leaves every other live session's fields, counters and player list
\* unchanged, whatever its answer; a sweep leaves every session it does not
\* delete unchanged, and deletes none whose heartbeat is within the timeout.
C39_OtherSessionsUntouched ==
    [][LET id == resp'.sid
       IN  /\ resp'.op = "update" =>
                \A b \in UpdateBodies : UpdateSession(id, b) => OthersUntouched(id)
           /\ resp'.op = "heartbeat" =>
                (HeartbeatSession(id) => OthersUntouched(id))
           /\ resp'.op = "join" =>
                \A b \in JoinBodies : JoinSession(id, b) => OthersUntouched(id)
           /\ resp'.op = "leave" =>
                \A b \in LeaveBodies : LeaveSession(id, b) => OthersUntouched(id)
           /\ resp'.op = "delete" =>
                (DeleteSession(id) => OthersUntouched(id))
           /\ resp'.op = "sweep" =>
                (CleanupStaleSessions =>
                    \A k \in Live :
                        /\ k \in DOMAIN sessions' => sessions'[k] = sessions[k]
                        /\ Age(sessions[k]) <= SessionTimeout => k \in DOMAIN sessions')]_vars

\* A join has been taken by one of two live sessions: it has two players and
\* one pilot more, the other session its host alone.
C39_Witness ==
    /\ resp.op = "join" /\ resp.status = 200
    /\ Cardinality(Live) = 2
    /\ resp.sid \in Live
    /\ Len(sessions[resp.sid].players) = 2
    /\ sessions[resp.sid].current_pilots = 2
    /\ \E k \in Live \ {resp.sid} :
        /\ Len(sessions[k].players) = 1
        /\ sessions[k].current_pilots = 1

\* The request is answered not found and nothing of the registry or of the
\* scheduled broadcasts has changed.
NotFoundAndNothingDone ==
    /\ resp'.status = 404
    /\ sessions' = sessions
    /\ order' = order
    /\ tasks' = tasks

\* C40: once a session has been deleted, by a delete, by the leave of its host
\* or by the sweep, its id is not live; a heartbeat, update, join, leave, get or
\* delete that reaches the registry with an id that is not live is answered not
\* found and changes nothing; and only a create that is given the id makes it
\* live again.
C40_DeletedStaysDeleted ==
    [][LET id == resp'.sid
       IN  /\ resp'.op = "delete" =>
                (DeleteSession(id) =>
                    /\ id \notin DOMAIN sessions'
                    /\ id \notin Live => NotFoundAndNothingDone)
           /\ resp'.op = "leave" =>
                \A b \in LeaveBodies \ {InvalidJson} :
                    (Truthy(Get(b, "steam_id", "")) /\ LeaveSession(id, b)) =>
                        /\ RemovesHost(id, b) => id \notin DOMAIN sessions'
                        /\ id \notin Live => NotFoundAndNothingDone
           /\ resp'.op = "sweep" =>
                (CleanupStaleSessions =>
                    \A k \in Live :
                        Age(sessions[k]) > SessionTimeout => k \notin DOMAIN sessions')
           /\ resp'.op = "heartbeat" =>
                ((id \notin Live /\ HeartbeatSession(id)) => NotFoundAndNothingDone)
           /\ resp'.op = "get" =>
                ((id \notin Live /\ GetSession(id)) => NotFoundAndNothingDone)
           /\ resp'.op = "update" =>
                \A b \in UpdateBodies \ {InvalidJson} :
                    (id \notin Live /\ UpdateSession(id, b)) => NotFoundAndNothingDone
           /\ resp'.op = "join" =>
                \A b \in JoinBodies \ {InvalidJson} :
                    (id \notin Live /\ JoinSession(id, b)) => NotFoundAndNothingDone
           /\ \A k \in SessionIds :
                (k \notin Live /\ k \in DOMAIN sessions') =>
                    \E b \in CreateBodies \ {InvalidJson} :
                        /\ CreateSession(k, b, "10.0.0.1", <<>>)
                        /\ resp'.status = 201]_vars

\* A join on the id of a session that has just been deleted: not found, with
\* the session_deleted of that id the one task scheduled.
C40_Witness ==
    /\ resp.op = "join" /\ resp.status = 404
    /\ resp.sid \notin Live
    /\ Len(tasks) = 1
    /\ tasks[1].type = "session_deleted"
    /\ tasks[1].data.session_id = resp.sid

====
